---- MODULE Spec2Model ----
(***************************************************************************)
(* Model of the virtual try-on repository:                                 *)
(*   - call_virtual_try_on (virtual_try_on_demo.py): the retrying client   *)
(*   - call_vertex, try_on, generate_background (api_app.py): the service  *)
(*   - composite_on_background (api_app.py): the compositing pipeline      *)
(***************************************************************************)
EXTENDS Integers, Sequences, FiniteSets, TLC

VARIABLES
    caller,           \* which entry point runs: "cli", "try_on", "background"
    max_retries,      \* argument max_retries of call_virtual_try_on
    backoff_seconds,  \* argument backoff_seconds of call_virtual_try_on
    attempt,          \* loop variable of `for attempt in range(max_retries + 1)`
    pc,               \* position of the running call
    trace,            \* endpoint calls and sleeps performed so far, in order
    last_exc,         \* local last_exc of call_virtual_try_on
    result,           \* how the call ended: returned value or raised exception
    reply             \* HTTP reply of the service handler (try_on, generate_background)

clientVars == <<caller, max_retries, backoff_seconds, attempt, pc, trace,
                last_exc, result, reply>>

-----------------------------------------------------------------------------
(* Bounds of the model *)

MaxRetries == 3
MaxBackoff == 2

(* argparse type=int accepts negative numbers for --max-retries.  A backoff *)
(* is a duration time.sleep accepts, so it is not negative; doubling a      *)
(* float is exact, so whole seconds stand for every backoff.                *)
RetryValues == -1 .. MaxRetries
BackoffValues == 0 .. MaxBackoff

-----------------------------------------------------------------------------
(* The endpoint's answers.  The predict endpoint answers 2xx or an error    *)
(* status (4xx/5xx); a transport failure yields no HTTP response at all.    *)

OkStatuses == {200, 201}
ErrorStatuses == {429, 503}
ErrorTexts == {"quota exceeded", "unavailable"}
OkTexts == {"{predictions:[{image,prompt}]}", "{predictions:[{image}]}",
            "{predictions:[{}]}", "{predictions:[]}", "<html>"}
TransportErrors == {"ConnectionError", "Timeout"}

NoResponse == [kind |-> "none", status |-> 0, text |-> "", exc |-> ""]

HttpResponse(status, text) ==
    [kind |-> "http", status |-> status, text |-> text, exc |-> ""]

TransportFailure(exc) ==
    [kind |-> "transport", status |-> 0, text |-> "", exc |-> exc]

Responses ==
    {HttpResponse(s, t) : s \in OkStatuses, t \in OkTexts}
        \cup {HttpResponse(s, t) : s \in ErrorStatuses, t \in ErrorTexts}
        \cup {TransportFailure(e) : e \in TransportErrors}

(* requests.Response.ok: raise_for_status() raises for 400 <= status < 600 *)
ResponseOkOnly200(status) == status = 200

ResponseOk(status) == ~(400 <= status /\ status < 600)

(* response.json(): the parsed body, or a decoding failure *)
NoPrediction == [bytesBase64Encoded |-> "", prompt |-> ""]

IsJson(text) == text # "<html>"

ResponseJson(text) ==
    CASE text = "{predictions:[{image,prompt}]}" ->
             [predictions |-> <<[bytesBase64Encoded |-> "image", prompt |-> "prompt"]>>]
      [] text = "{predictions:[{image}]}" ->
             [predictions |-> <<[bytesBase64Encoded |-> "image", prompt |-> ""]>>]
      [] text = "{predictions:[{}]}" ->
             [predictions |-> <<NoPrediction>>]
      [] OTHER -> [predictions |-> <<>>]

NoJson == [predictions |-> <<>>]

-----------------------------------------------------------------------------
(* Exceptions and results *)

NoException == [type |-> "None", status |-> 0, text |-> ""]

HTTPError(resp) == [type |-> "HTTPError", status |-> resp.status, text |-> resp.text]

TransportException(resp) == [type |-> resp.exc, status |-> 0, text |-> ""]

JSONDecodeError == [type |-> "JSONDecodeError", status |-> 0, text |-> ""]

SystemExit == [type |-> "SystemExit", status |-> 0, text |-> ""]

NoResult == [kind |-> "none", value |-> NoJson, exc |-> NoException]

Returned(json) == [kind |-> "return", value |-> json, exc |-> NoException]

Raised(e) == [kind |-> "raise", value |-> NoJson, exc |-> e]

(* what the service puts into its exceptions and HTTP replies *)
HTTPException(status, detail) == [type |-> "HTTPException", status |-> status, text |-> detail]

NoReply == [status |-> 0, imageBase64 |-> "", prompt |-> "", detail |-> ""]

ReplyImage(image, prompt) ==
    [status |-> 200, imageBase64 |-> image, prompt |-> prompt, detail |-> ""]

ReplyError(status, detail) ==
    [status |-> status, imageBase64 |-> "", prompt |-> "", detail |-> detail]

-----------------------------------------------------------------------------
(* Events of the trace *)

CallEvent(resp) == [ev |-> "call", resp |-> resp, secs |-> 0]

SleepEvent(secs) == [ev |-> "sleep", resp |-> NoResponse, secs |-> secs]

RECURSIVE Pow2(_)
Pow2(n) == IF n <= 0 THEN 1 ELSE 2 * Pow2(n - 1)

(* sleep_for = backoff_seconds * (2 ** attempt) *)
SleepForLinear(backoff, k) == backoff * (k + 1)

SleepFor(backoff, k) == backoff * Pow2(k)

(* `if attempt >= max_retries: raise` *)
RetriesExhaustedOffByOne(k, retries) == k > retries

RetriesExhausted(k, retries) == k >= retries

-----------------------------------------------------------------------------
(* composite_on_background: state *)

VARIABLES
    cpc,              \* position in composite_on_background
    foreground_b64,   \* argument foreground_b64: the encoded try-on image
    background_b64,   \* argument background_b64: the encoded background
    rembg_output,     \* what rembg's remove() answers for this foreground
    pixel_alpha,      \* alpha of one pixel of the cutout, as rembg produced it
    scene_luma,       \* what the 1x1 grayscale down-samples of bg and fg measure
    foreground,       \* local foreground: decoded input, then the cutout
    background,       \* local background: decoded input
    cutout_result,    \* local cutout_result
    bg,               \* local bg: the zoomed and fitted background, the canvas
    fg,               \* local fg: the scaled subject
    fg_alpha,         \* alpha of the pixel in fg
    shadow,           \* local shadow: the shadow layer
    offset,           \* local offset
    shadow_offset,    \* local shadow_offset
    brightness,       \* local brightness, and whether ImageEnhance was applied
    blended,          \* the layers alpha-composited onto bg so far, in order
    output,           \* the image returned
    error,            \* the exception that ended the call
    steps,            \* the pipeline steps that ran, in order
    alpha_runs        \* an alpha value and what repeated edge cleanup makes of it

compVars == <<cpc, foreground_b64, background_b64, rembg_output, pixel_alpha,
              scene_luma, foreground, background, cutout_result, bg, fg, fg_alpha,
              shadow, offset, shadow_offset, brightness, blended, output, error,
              steps, alpha_runs>>

(* Bounds of the model: image sides in pixels *)
MaxDim == 4
MaxBgDim == 3
MaxApplications == 2

(* 8-bit channels *)
MaxChannel == 255

NoImage == [w |-> 0, h |-> 0, mode |-> "none"]

Image(w, h, mode) == [w |-> w, h |-> h, mode |-> mode]

EncodedImage(w, h) == [w |-> w, h |-> h]

NoCutout == [type |-> "none", form |-> "none", w |-> 0, h |-> 0]

NoBox == [left |-> 0, top |-> 0, right |-> 0, bottom |-> 0]

NoShadow == [w |-> 0, h |-> 0, ellipse |-> NoBox, fill_alpha |-> 0, blur |-> 0]

NoOffset == <<0, 0>>

NoBrightness == [applied |-> FALSE, num |-> 1, den |-> 1]

NoLuma == [bg |-> 0, fg |-> 0]

(* The compositor is not running. *)
CompIdle ==
    /\ cpc = "idle"
    /\ foreground_b64 = EncodedImage(0, 0)
    /\ background_b64 = EncodedImage(0, 0)
    /\ rembg_output = NoCutout
    /\ pixel_alpha = 0
    /\ scene_luma = NoLuma
    /\ foreground = NoImage
    /\ background = NoImage
    /\ cutout_result = NoCutout
    /\ bg = NoImage
    /\ fg = NoImage
    /\ fg_alpha = 0
    /\ shadow = NoShadow
    /\ offset = NoOffset
    /\ shadow_offset = NoOffset
    /\ brightness = NoBrightness
    /\ blended = <<>>
    /\ output = NoImage
    /\ error = "None"
    /\ steps = <<>>
    /\ alpha_runs = <<>>

(* No request is running in the client or the service. *)
ClientIdle ==
    /\ caller = "none"
    /\ max_retries = 0
    /\ backoff_seconds = 0
    /\ attempt = 0
    /\ pc = "idle"
    /\ trace = <<>>
    /\ last_exc = NoException
    /\ result = NoResult
    /\ reply = NoReply

-----------------------------------------------------------------------------
(* call_virtual_try_on *)

ClientInit ==
    /\ caller = "cli"
    /\ max_retries \in RetryValues
    /\ backoff_seconds \in BackoffValues
    /\ attempt = 0
    /\ pc = "loop"
    /\ trace = <<>>
    /\ last_exc = NoException
    /\ result = NoResult
    /\ reply = NoReply
    /\ CompIdle

(* One iteration of the loop body up to its return, raise or sleep. *)
Attempt(resp) ==
    /\ caller = "cli"
    /\ pc = "loop"
    /\ attempt < max_retries + 1
    /\ trace' = Append(trace, CallEvent(resp))
    /\ IF resp.kind = "transport"
         THEN \* requests.post raises; `except requests.HTTPError` does not match
              /\ pc' = "raised"
              /\ result' = Raised(TransportException(resp))
              /\ UNCHANGED last_exc
         ELSE IF ResponseOk(resp.status)
         THEN IF IsJson(resp.text)
                THEN /\ pc' = "returned"
                     /\ result' = Returned(ResponseJson(resp.text))
                     /\ UNCHANGED last_exc
                ELSE /\ pc' = "raised"
                     /\ result' = Raised(JSONDecodeError)
                     /\ UNCHANGED last_exc
         ELSE /\ last_exc' = HTTPError(resp)
              /\ IF RetriesExhausted(attempt, max_retries)
                   THEN /\ pc' = "raised"
                        /\ result' = Raised(HTTPError(resp))
                   ELSE /\ pc' = "sleep"
                        /\ UNCHANGED result
    /\ UNCHANGED <<caller, max_retries, backoff_seconds, attempt, reply, compVars>>

(* time.sleep(sleep_for), then the next iteration *)
Sleep ==
    /\ caller = "cli"
    /\ pc = "sleep"
    /\ trace' = Append(trace, SleepEvent(SleepFor(backoff_seconds, attempt)))
    /\ attempt' = attempt + 1
    /\ pc' = "loop"
    /\ UNCHANGED <<caller, max_retries, backoff_seconds, last_exc, result, reply, compVars>>

(* range(max_retries + 1) is exhausted: the statement after the loop *)
LoopExit ==
    /\ caller = "cli"
    /\ pc = "loop"
    /\ ~(attempt < max_retries + 1)
    /\ pc' = "exit"
    /\ result' = Raised(SystemExit)
    /\ UNCHANGED <<caller, max_retries, backoff_seconds, attempt, trace, last_exc, reply, compVars>>

-----------------------------------------------------------------------------
(* api_app.py: call_vertex and the two handlers that use it *)

(* call_vertex: one requests.post, no loop and no sleep *)
CallVertex(resp) ==
    IF resp.kind = "transport" THEN Raised(TransportException(resp))
    ELSE IF ~ResponseOk(resp.status) THEN Raised(HTTPException(resp.status, resp.text))
    ELSE IF ~IsJson(resp.text) THEN Raised(JSONDecodeError)
    ELSE Returned(ResponseJson(resp.text))

(* FastAPI turns an HTTPException into its status and detail, and any other *)
(* exception into a 500 reply.                                              *)
ReplyOfException(e) ==
    IF e.type = "HTTPException" THEN ReplyError(e.status, e.text)
    ELSE ReplyError(500, "Internal Server Error")

(* the checks both handlers make on the predictions of the response *)
ReplyOfPredictions(json, composited, echoPrompt) ==
    IF json.predictions = <<>>
      THEN ReplyError(502, "No predictions returned from API.")
    ELSE IF json.predictions[1].bytesBase64Encoded = ""
      THEN ReplyError(502, "Missing image data in API response.")
    ELSE ReplyImage(IF composited THEN "composite" ELSE json.predictions[1].bytesBase64Encoded,
                    IF echoPrompt THEN json.predictions[1].prompt ELSE "")

(* call_vertex takes no max_retries and no backoff: the handlers leave the  *)
(* client's loop variables alone.                                           *)
ServiceInit ==
    /\ caller \in {"try_on", "background"}
    /\ max_retries = 0
    /\ backoff_seconds = 0
    /\ attempt = 0
    /\ pc = "handler"
    /\ trace = <<>>
    /\ last_exc = NoException
    /\ result = NoResult
    /\ reply = NoReply
    /\ CompIdle

Handle(resp, composited, echoPrompt) ==
    /\ pc = "handler"
    /\ trace' = Append(trace, CallEvent(resp))
    /\ result' = CallVertex(resp)
    /\ reply' = IF result'.kind = "raise"
                  THEN ReplyOfException(result'.exc)
                  ELSE ReplyOfPredictions(result'.value, composited, echoPrompt)
    /\ pc' = "replied"
    /\ UNCHANGED <<caller, max_retries, backoff_seconds, attempt, last_exc, compVars>>

(* POST /try-on *)
TryOn(resp, hasBackground) ==
    /\ caller = "try_on"
    /\ Handle(resp, hasBackground, FALSE)

(* POST /background *)
GenerateBackground(resp) ==
    /\ caller = "background"
    /\ Handle(resp, FALSE, TRUE)

-----------------------------------------------------------------------------
(* composite_on_background: the policy numbers of the pipeline *)

ZoomPercent == 135
ScalePercent == 78
AlphaThreshold == 200
Opaque == 255
EllipseWidthPercent == 55
EllipseHeightPercent == 8
EllipseTopPercent == 88
ShadowFillAlpha == 120
BlurRadius == 18
TopOffsetPercent == 14
MinBrightnessPercent == 85
MaxBrightnessPercent == 115

(* int(x * p / 100) for the non-negative sizes of the pipeline *)
IntOfPercentRoundedUp(x, percent) == (x * percent + 99) \div 100

IntOfPercent(x, percent) == (x * percent) \div 100

(* What remove() may hand back.  form: "rgba" is an RGBA raster (or its     *)
(* encoding), "other_mode" a raster of another mode (RGB, L; HxWx3 or HxW   *)
(* arrays; a JPEG), "invalid" bytes that are no image or an array PIL       *)
(* cannot read.                                                             *)
SegmenterOutputs(w, h) ==
    {[type |-> t, form |-> f, w |-> w, h |-> h] :
        t \in {"bytes", "ndarray"}, f \in {"rgba", "other_mode", "invalid"}}
    \cup {[type |-> "Image", form |-> f, w |-> w, h |-> h] : f \in {"rgba", "other_mode"}}
    \cup {[type |-> t, form |-> "invalid", w |-> 0, h |-> 0] : t \in {"NoneType", "str"}}

(* the isinstance dispatch on cutout_result, and the decoding in its branches *)
CutoutToForegroundElsePass(res, current) ==
    IF res.type \in {"bytes", "Image", "ndarray"} /\ res.form # "invalid"
      THEN [error |-> "None", image |-> Image(res.w, res.h, "RGBA")]
      ELSE [error |-> "None", image |-> current]

CutoutToForeground(res, current) ==
    IF res.type = "bytes"
      THEN IF res.form = "invalid"
             THEN [error |-> "UnidentifiedImageError", image |-> current]
             ELSE [error |-> "None", image |-> Image(res.w, res.h, "RGBA")]
    ELSE IF res.type = "Image"
      THEN [error |-> "None", image |-> Image(res.w, res.h, "RGBA")]
    ELSE IF res.type = "ndarray"
      THEN IF res.form = "invalid"
             THEN [error |-> "TypeError", image |-> current]
             ELSE [error |-> "None", image |-> Image(res.w, res.h, "RGBA")]
    ELSE [error |-> "TypeError", image |-> current]

(* Image.resize: a new image of the size asked for *)
Resize(image, w, h) == Image(w, h, image.mode)

(* ImageOps.fit(image, size): crops image to the aspect ratio of size and   *)
(* resizes the crop to size                                                 *)
ImageOpsFitKeepsImageSize(image, w, h) == image

ImageOpsFit(image, w, h) == Resize(image, w, h)

(* the lambda of fg_alpha.point *)
EdgeCleanupPointGain(a) ==
    IF (a * Opaque) \div AlphaThreshold > Opaque THEN Opaque
    ELSE (a * Opaque) \div AlphaThreshold

EdgeCleanupPoint(a) == IF a > AlphaThreshold THEN Opaque ELSE a

(* brightness = max(0.85, min(1.15, bg_luma / fg_luma)), as a fraction *)
Fraction(n, d) == [applied |-> TRUE, num |-> n, den |-> d]

FractionLess(x, y) == x.num * y.den < y.num * x.den

(* Python's min(a, b) and max(a, b): the first argument unless the second   *)
(* is smaller (larger)                                                      *)
PyMin(a, b) == IF FractionLess(b, a) THEN b ELSE a

PyMax(a, b) == IF FractionLess(a, b) THEN b ELSE a

BrightnessUnclampedAbove(bg_luma, fg_luma) ==
    PyMax(Fraction(MinBrightnessPercent, 100), Fraction(bg_luma, fg_luma))

Brightness(bg_luma, fg_luma) ==
    PyMax(Fraction(MinBrightnessPercent, 100),
          PyMin(Fraction(MaxBrightnessPercent, 100), Fraction(bg_luma, fg_luma)))

-----------------------------------------------------------------------------
(* composite_on_background: the pipeline, one action per step *)

DimValues == 1 .. MaxDim
BgDimValues == 1 .. MaxBgDim
AlphaSamples == {AlphaThreshold, AlphaThreshold + 1}
LumaSamples == {0, 128}
LumaValues == 0 .. MaxChannel

(* the locals of a call that has not run yet *)
CompLocalsBlank ==
    /\ foreground = NoImage
    /\ background = NoImage
    /\ cutout_result = NoCutout
    /\ bg = NoImage
    /\ fg = NoImage
    /\ fg_alpha = 0
    /\ shadow = NoShadow
    /\ offset = NoOffset
    /\ shadow_offset = NoOffset
    /\ brightness = NoBrightness
    /\ blended = <<>>
    /\ output = NoImage
    /\ error = "None"
    /\ steps = <<>>

CompStart ==
    /\ cpc = "decode"
    /\ CompLocalsBlank
    /\ alpha_runs = <<>>

CompositeInit ==
    /\ ClientIdle
    /\ CompStart
    /\ foreground_b64 \in {EncodedImage(w, h) : w \in DimValues, h \in DimValues}
    /\ background_b64 \in {EncodedImage(w, h) : w \in BgDimValues, h \in BgDimValues}
    /\ rembg_output \in SegmenterOutputs(foreground_b64.w, foreground_b64.h)
    /\ pixel_alpha \in AlphaSamples
    /\ scene_luma \in [bg : LumaSamples, fg : LumaSamples]

compInputs == <<foreground_b64, background_b64, rembg_output, pixel_alpha, scene_luma>>

(* lines 127-131: decode both inputs and convert them to RGBA *)
Decode ==
    /\ cpc = "decode"
    /\ foreground' = Image(foreground_b64.w, foreground_b64.h, "RGBA")
    /\ background' = Image(background_b64.w, background_b64.h, "RGBA")
    /\ cpc' = "segment"
    /\ steps' = Append(steps, "decode")
    /\ UNCHANGED <<compInputs, cutout_result, bg, fg, fg_alpha, shadow, offset,
                   shadow_offset, brightness, blended, output, error, alpha_runs>>
    /\ UNCHANGED clientVars

(* lines 134-152: remove(), then the dispatch on what it returned *)
Segment ==
    /\ cpc = "segment"
    /\ cutout_result' = rembg_output
    /\ LET got == CutoutToForeground(rembg_output, foreground)
       IN /\ foreground' = got.image
          /\ error' = got.error
          /\ cpc' = IF got.error = "None" THEN "fit" ELSE "failed"
    /\ steps' = Append(steps, "segment")
    /\ UNCHANGED <<compInputs, background, bg, fg, fg_alpha, shadow, offset,
                   shadow_offset, brightness, blended, output, alpha_runs>>
    /\ UNCHANGED clientVars

(* lines 156-161: zoom the background, then fit it to the cutout's size *)
FitBackground ==
    /\ cpc = "fit"
    /\ LET bg_zoom == Resize(background,
                             IntOfPercent(background.w, ZoomPercent),
                             IntOfPercent(background.h, ZoomPercent))
       IN bg' = ImageOpsFit(bg_zoom, foreground.w, foreground.h)
    /\ cpc' = "scale"
    /\ steps' = Append(steps, "fit")
    /\ UNCHANGED <<compInputs, foreground, background, cutout_result, fg, fg_alpha,
                   shadow, offset, shadow_offset, brightness, blended, output, error,
                   alpha_runs>>
    /\ UNCHANGED clientVars

(* lines 164-169: shrink the cutout; resize refuses a side of 0 pixels *)
ScaleSubject ==
    /\ cpc = "scale"
    /\ LET fg_target == <<IntOfPercent(foreground.w, ScalePercent),
                          IntOfPercent(foreground.h, ScalePercent)>>
       IN IF fg_target[1] < 1 \/ fg_target[2] < 1
            THEN /\ error' = "ValueError"
                 /\ cpc' = "failed"
                 /\ UNCHANGED <<fg, fg_alpha>>
            ELSE /\ fg' = Resize(foreground, fg_target[1], fg_target[2])
                 /\ fg_alpha' = pixel_alpha
                 /\ cpc' = "cleanup"
                 /\ UNCHANGED error
    /\ steps' = Append(steps, "scale")
    /\ UNCHANGED <<compInputs, foreground, background, cutout_result, bg, shadow,
                   offset, shadow_offset, brightness, blended, output, alpha_runs>>
    /\ UNCHANGED clientVars

(* lines 172-174: snap nearly opaque alpha to opaque *)
EdgeCleanup ==
    /\ cpc = "cleanup"
    /\ fg_alpha' = EdgeCleanupPoint(fg_alpha)
    /\ cpc' = "shadow"
    /\ steps' = Append(steps, "cleanup")
    /\ UNCHANGED <<compInputs, foreground, background, cutout_result, bg, fg, shadow,
                   offset, shadow_offset, brightness, blended, output, error, alpha_runs>>
    /\ UNCHANGED clientVars

(* lines 177-189: the blurred ellipse on a transparent layer of fg's size *)
ShadowSynthesis ==
    /\ cpc = "shadow"
    /\ LET ellipse_width == IntOfPercent(fg.w, EllipseWidthPercent)
           ellipse_height == IntOfPercent(fg.h, EllipseHeightPercent)
           ellipse_x == (fg.w - ellipse_width) \div 2
           ellipse_y == IntOfPercent(fg.h, EllipseTopPercent)
       IN shadow' = [w |-> fg.w, h |-> fg.h,
                     ellipse |-> [left |-> ellipse_x, top |-> ellipse_y,
                                  right |-> ellipse_x + ellipse_width,
                                  bottom |-> ellipse_y + ellipse_height],
                     fill_alpha |-> ShadowFillAlpha, blur |-> BlurRadius]
    /\ cpc' = "placement"
    /\ steps' = Append(steps, "shadow")
    /\ UNCHANGED <<compInputs, foreground, background, cutout_result, bg, fg, fg_alpha,
                   offset, shadow_offset, brightness, blended, output, error, alpha_runs>>
    /\ UNCHANGED clientVars

(* lines 191-192: where the subject and the shadow go *)
PlacementShadowDropped ==
    /\ cpc = "placement"
    /\ offset' = <<(bg.w - fg.w) \div 2, IntOfPercent(bg.h, TopOffsetPercent)>>
    /\ shadow_offset' = <<offset'[1] + 1, offset'[2] + 1>>
    /\ cpc' = "luma"
    /\ steps' = Append(steps, "placement")
    /\ UNCHANGED <<compInputs, foreground, background, cutout_result, bg, fg, fg_alpha,
                   shadow, brightness, blended, output, error, alpha_runs>>
    /\ UNCHANGED clientVars

Placement ==
    /\ cpc = "placement"
    /\ offset' = <<(bg.w - fg.w) \div 2, IntOfPercent(bg.h, TopOffsetPercent)>>
    /\ shadow_offset' = <<offset'[1], offset'[2]>>
    /\ cpc' = "luma"
    /\ steps' = Append(steps, "placement")
    /\ UNCHANGED <<compInputs, foreground, background, cutout_result, bg, fg, fg_alpha,
                   shadow, brightness, blended, output, error, alpha_runs>>
    /\ UNCHANGED clientVars

(* lines 195-208: brightness matching.  getpixel of a mode-L image is an    *)
(* int, so the tuple and None branches of lines 197-203 do not run.         *)
MatchLuminance ==
    /\ cpc = "luma"
    /\ LET bg_luma == scene_luma.bg
           fg_luma == scene_luma.fg
       IN IF fg_luma > 0
            THEN brightness' = Brightness(bg_luma, fg_luma)
            ELSE UNCHANGED brightness
    /\ cpc' = "blend_shadow"
    /\ steps' = Append(steps, "luma")
    /\ UNCHANGED <<compInputs, foreground, background, cutout_result, bg, fg, fg_alpha,
                   shadow, offset, shadow_offset, blended, output, error, alpha_runs>>
    /\ UNCHANGED clientVars

(* line 210: bg.alpha_composite(shadow, dest=shadow_offset), in place *)
BlendShadow ==
    /\ cpc = "blend_shadow"
    /\ blended' = Append(blended, [layer |-> "shadow", dest |-> shadow_offset,
                                   w |-> shadow.w, h |-> shadow.h])
    /\ cpc' = "blend_subject"
    /\ steps' = Append(steps, "blend_shadow")
    /\ UNCHANGED <<compInputs, foreground, background, cutout_result, bg, fg, fg_alpha,
                   shadow, offset, shadow_offset, brightness, output, error, alpha_runs>>
    /\ UNCHANGED clientVars

(* line 211: bg.alpha_composite(fg, dest=offset), in place *)
BlendSubject ==
    /\ cpc = "blend_subject"
    /\ blended' = Append(blended, [layer |-> "subject", dest |-> offset,
                                   w |-> fg.w, h |-> fg.h])
    /\ cpc' = "output"
    /\ steps' = Append(steps, "blend_subject")
    /\ UNCHANGED <<compInputs, foreground, background, cutout_result, bg, fg, fg_alpha,
                   shadow, offset, shadow_offset, brightness, output, error, alpha_runs>>
    /\ UNCHANGED clientVars

(* lines 214-217: flatten to RGB, encode as JPEG *)
Output ==
    /\ cpc = "output"
    /\ output' = Image(bg.w, bg.h, "RGB")
    /\ cpc' = "done"
    /\ steps' = Append(steps, "output")
    /\ UNCHANGED <<compInputs, foreground, background, cutout_result, bg, fg, fg_alpha,
                   shadow, offset, shadow_offset, brightness, blended, error, alpha_runs>>
    /\ UNCHANGED clientVars

(* The luminance-matching step over every pair of measured luminances, on  *)
(* one cutout and one background.                                          *)
LumaInit ==
    /\ ClientIdle
    /\ CompStart
    /\ foreground_b64 = EncodedImage(MaxDim, MaxDim)
    /\ background_b64 = EncodedImage(MaxBgDim, MaxBgDim)
    /\ rembg_output = [type |-> "bytes", form |-> "rgba", w |-> MaxDim, h |-> MaxDim]
    /\ pixel_alpha = Opaque
    /\ scene_luma \in [bg : LumaValues, fg : LumaValues]

(* The point operation of the edge cleanup, applied to every alpha value   *)
(* again and again.                                                        *)
AlphaInit ==
    /\ ClientIdle
    /\ cpc = "cleanup"
    /\ foreground_b64 = EncodedImage(0, 0)
    /\ background_b64 = EncodedImage(0, 0)
    /\ rembg_output = NoCutout
    /\ pixel_alpha = 0
    /\ scene_luma = NoLuma
    /\ CompLocalsBlank
    /\ alpha_runs \in {<<a>> : a \in 0 .. MaxChannel}

ApplyEdgeCleanup ==
    /\ alpha_runs # <<>>
    /\ Len(alpha_runs) <= MaxApplications
    /\ alpha_runs' = Append(alpha_runs, EdgeCleanupPoint(alpha_runs[Len(alpha_runs)]))
    /\ UNCHANGED <<cpc, compInputs, foreground, background, cutout_result, bg, fg,
                   fg_alpha, shadow, offset, shadow_offset, brightness, blended, output,
                   error, steps>>
    /\ UNCHANGED clientVars

NextAlpha == ApplyEdgeCleanup

(* The pipeline over cutouts of every size up to MaxSide x MaxSide, on one *)
(* background, to see where the subject and the shadow are placed.         *)
MaxSide == 110

PlacementInit ==
    /\ ClientIdle
    /\ CompStart
    /\ foreground_b64 \in {EncodedImage(w, h) : w \in 1 .. MaxSide, h \in 1 .. MaxSide}
    /\ background_b64 = EncodedImage(MaxBgDim, MaxBgDim)
    /\ rembg_output = [type |-> "bytes", form |-> "rgba",
                       w |-> foreground_b64.w, h |-> foreground_b64.h]
    /\ pixel_alpha = Opaque
    /\ scene_luma = [bg |-> 128, fg |-> 128]

NextComposite ==
    \/ Decode
    \/ Segment
    \/ FitBackground
    \/ ScaleSubject
    \/ EdgeCleanup
    \/ ShadowSynthesis
    \/ Placement
    \/ MatchLuminance
    \/ BlendShadow
    \/ BlendSubject
    \/ Output

-----------------------------------------------------------------------------
vars == <<clientVars, compVars>>

Init == ClientInit \/ ServiceInit

Next ==
    \/ \E resp \in Responses : Attempt(resp)
    \/ Sleep
    \/ LoopExit
    \/ \E resp \in Responses, hasBackground \in BOOLEAN : TryOn(resp, hasBackground)
    \/ \E resp \in Responses : GenerateBackground(resp)

Spec == Init /\ [][Next]_vars

SpecComposite == CompositeInit /\ [][NextComposite]_vars

SpecLuma == LumaInit /\ [][NextComposite]_vars

SpecAlpha == AlphaInit /\ [][NextAlpha]_vars

SpecPlacement == PlacementInit /\ [][NextComposite]_vars

-----------------------------------------------------------------------------
(* Reading the trace *)

Calls == SelectSeq(trace, LAMBDA e : e.ev = "call")

Sleeps == SelectSeq(trace, LAMBDA e : e.ev = "sleep")

Is2xx(resp) == resp.kind = "http" /\ 200 <= resp.status /\ resp.status <= 299

IsNon2xx(resp) == resp.kind = "http" /\ ~(200 <= resp.status /\ resp.status <= 299)

Ended == pc \in {"returned", "raised", "exit"}

LastCall == Calls[Len(Calls)].resp

-----------------------------------------------------------------------------
C3_TransportFailureRetried ==
    (caller = "cli" /\ pc = "raised" /\ LastCall.kind = "transport")
    => ~(Len(Calls) - 1 < max_retries)

C5_ServiceCallsRetried ==
    (caller \in {"try_on", "background"} /\ pc = "replied"
        /\ IsNon2xx(Calls[1].resp))
    => /\ Len(Sleeps) >= 1
       /\ Len(Calls) >= 2

(* C10: the statement after the retry loop is never reached.                *)
C10_LoopExitUnreachable == pc # "exit"

-----------------------------------------------------------------------------
(* Reading the pipeline *)

Ran(step) == \E i \in 1 .. Len(steps) : steps[i] = step

IsRaster(res) == res.type \in {"bytes", "Image", "ndarray"} /\ res.form # "invalid"

FailedInSegment == cpc = "failed" /\ steps = <<"decode", "segment">>

(* C6, as claimed: only encoded image bytes and in-memory RGBA rasters are  *)
(* accepted; a Segmenter result of any other type or shape makes composite  *)
(* fail in the segmentation step.                                           *)
C6_OnlyBytesOrRgbaRasterAccepted ==
    (Ran("segment")
        /\ ~(\/ cutout_result.type = "bytes" /\ cutout_result.form # "invalid"
             \/ cutout_result.type \in {"Image", "ndarray"} /\ cutout_result.form = "rgba"))
    => FailedInSegment

(* C6, amended: a Segmenter result that is encoded image bytes, an image or *)
(* an array raster is accepted and converted to RGBA whatever its mode; a   *)
(* result of any other type, or bytes or an array that cannot be read as an *)
(* image, makes composite fail in the segmentation step (TypeError for an   *)
(* unexpected type), before background fit, scaling, shadow or blend run,   *)
(* with no composite produced and the decoded inputs as they were.          *)
C6_UnreadableCutoutFailsFirst ==
    Ran("segment")
    => IF IsRaster(cutout_result)
         THEN /\ ~FailedInSegment
              /\ foreground = Image(cutout_result.w, cutout_result.h, "RGBA")
         ELSE /\ FailedInSegment
              /\ error \in {"TypeError", "UnidentifiedImageError"}
              /\ cutout_result.type \notin {"bytes", "Image", "ndarray"}
                    => error = "TypeError"
              /\ output = NoImage
              /\ bg = NoImage /\ fg = NoImage /\ shadow = NoShadow
              /\ blended = <<>>
              /\ foreground = Image(foreground_b64.w, foreground_b64.h, "RGBA")
              /\ background = Image(background_b64.w, background_b64.h, "RGBA")

C6_Witness ==
    /\ cpc = "failed"
    /\ cutout_result.type = "NoneType"
    /\ error = "TypeError"
    /\ steps = <<"decode", "segment">>

C8_BrightnessClamped ==
    LET b == scene_luma.bg
        f == scene_luma.fg
        n == brightness.num
        d == brightness.den
    IN IF Ran("luma") /\ f > 0
         THEN /\ brightness.applied
              /\ d > 0
              /\ 85 * d <= 100 * n /\ 100 * n <= 115 * d
              /\ IF 100 * b < 85 * f THEN 100 * n = 85 * d
                 ELSE IF 100 * b > 115 * f THEN 100 * n = 115 * d
                 ELSE n * f = b * d
         ELSE brightness = NoBrightness

C8_Witness ==
    /\ cpc = "done"
    /\ scene_luma = [bg |-> 255, fg |-> 1]
    /\ brightness.applied
    /\ 100 * brightness.num = 115 * brightness.den

(* C9: edge cleanup is idempotent: for every alpha value in 0..255 the      *)
(* first application gives 255 above 200 and the value itself otherwise,    *)
(* and every further application gives what the first gave.                 *)
C9_EdgeCleanupIdempotent ==
    /\ Len(alpha_runs) >= 2
          => alpha_runs[2] = IF alpha_runs[1] > 200 THEN 255 ELSE alpha_runs[1]
    /\ \A i \in 2 .. Len(alpha_runs) : alpha_runs[i] = alpha_runs[2]

C9_Witness ==
    /\ Len(alpha_runs) = 3
    /\ alpha_runs[1] = 201
    /\ alpha_runs[2] = 255
    /\ alpha_runs[3] = 255

(* C11: the shadow layer is blended onto the fitted background before the  *)
(* subject layer, never after it, and both at the same offset: the subject  *)
(* centred horizontally on the background, its top 14% of the background's  *)
(* height below the top.                                                    *)
C11_ShadowBeforeSubjectSameOffset ==
    /\ Len(blended) <= 2
    /\ Len(blended) >= 1 => /\ blended[1].layer = "shadow"
                            /\ blended[1].w = fg.w /\ blended[1].h = fg.h
    /\ Len(blended) = 2 => /\ blended[2].layer = "subject"
                           /\ blended[2].dest = blended[1].dest
    /\ \A i \in 1 .. Len(blended) :
          LET dx == blended[i].dest[1]
              dy == blended[i].dest[2]
          IN /\ 2 * dx <= bg.w - fg.w /\ bg.w - fg.w <= 2 * dx + 1
             /\ 100 * dy <= 14 * bg.h /\ 14 * bg.h < 100 * (dy + 1)
    /\ cpc = "done" => Len(blended) = 2

C11_Witness ==
    /\ cpc = "done"
    /\ cutout_result.w = 100 /\ cutout_result.h = 50
    /\ Len(blended) = 2
    /\ blended[1].layer = "shadow" /\ blended[1].dest = <<11, 7>>
    /\ blended[2].layer = "subject" /\ blended[2].dest = <<11, 7>>

(* C12: for every Cutout of width W >= 2 and height H >= 2 the subject is   *)
(* scaled to floor(0.78 W) x floor(0.78 H) and placed at                    *)
(* ((W - floor(0.78 W)) div 2, floor(0.14 H)) on the W x H background, and  *)
(* it lies inside the canvas: the offsets are not negative, offset_x +      *)
(* width <= W and offset_y + height <= H; the shadow layer, of the same     *)
(* size at the same place, does too.                                        *)
C12_SubjectInsideCanvas ==
    LET W == cutout_result.w
        H == cutout_result.h
    IN /\ (Ran("scale") /\ W >= 2 /\ H >= 2) => error = "None"
       /\ Ran("placement")
            => /\ W >= 2 /\ H >= 2
               /\ bg.w = W /\ bg.h = H
               /\ 100 * fg.w <= 78 * W /\ 78 * W < 100 * (fg.w + 1)
               /\ 100 * fg.h <= 78 * H /\ 78 * H < 100 * (fg.h + 1)
               /\ offset[1] = (W - fg.w) \div 2
               /\ 100 * offset[2] <= 14 * H /\ 14 * H < 100 * (offset[2] + 1)
               /\ offset[1] >= 0 /\ offset[2] >= 0
               /\ offset[1] + fg.w <= W
               /\ offset[2] + fg.h <= H
       /\ \A i \in 1 .. Len(blended) :
             /\ blended[i].dest[1] >= 0 /\ blended[i].dest[2] >= 0
             /\ blended[i].dest[1] + blended[i].w <= bg.w
             /\ blended[i].dest[2] + blended[i].h <= bg.h

C12_Witness ==
    /\ cpc = "done"
    /\ cutout_result.w = 2 /\ cutout_result.h = 100
    /\ fg = Image(1, 78, "RGBA")
    /\ offset = <<0, 14>>
    /\ Len(blended) = 2

====
